---- MODULE Spec2Model ----
(***************************************************************************)
(* Iterative DNS lookup of src/unnamed/part_000 (package main):            *)
(* recursiveLookup, pickNewRootServer, queryDNS, getNextServers and        *)
(* resolveNS.  One behaviour of the model is one call of recursiveLookup.  *)
(* The servers that are contacted and the host resolver (net.LookupHost)   *)
(* are the environment: every outcome they can produce is a choice.        *)
(***************************************************************************)
EXTENDS Integers, Sequences, FiniteSets, TLC

(* Size of the rootServers table.  The source table has 13 entries; the    *)
(* model keeps its shape (distinct names, distinct addresses) at NumRoots. *)
NumRoots == 3

(* Largest number of resource records (answers + authorities + additionals)*)
(* a decoded response carries.                                             *)
MaxRecs == 3

(* "" as a server name and as an address (the zero string of the source).  *)
NoName == <<>>
NoIP == 0

(* The rootServers map: name -> address, one address per name.             *)
rootServers == [n \in {<<"root", k>> : k \in 1..NumRoots} |-> n[2]]

RootNames == DOMAIN rootServers
RootIPs == {rootServers[n] : n \in RootNames}

(* One address that no root server has: a delegated nameserver.            *)
DelegatedIP == NumRoots + 1
Addrs == RootIPs \cup {DelegatedIP}

(* Nameserver names a referral can carry.                                  *)
NSNames == {<<"ns", 1>>, <<"ns", 2>>}

(* Saturating count: the counters of the model stop at MaxCount.           *)
MaxCount == NumRoots + 2
Inc(n) == IF n < MaxCount THEN n + 1 ELSE n

(* ----------------------------------------------------------------------- *)
(* dnsmessage.Message as the code reads it                                 *)
(* ----------------------------------------------------------------------- *)
AnswerRecs ==
    { [type |-> "A", data |-> DelegatedIP],
      [type |-> "AAAA", data |-> DelegatedIP],
      [type |-> "CNAME", data |-> NoIP] }

AuthorityRecs ==
    { [type |-> "NS", ns |-> n] : n \in NSNames } \cup { [type |-> "SOA", ns |-> NoName] }

AdditionalRecs ==
    { [type |-> "A", name |-> n, ip |-> DelegatedIP] : n \in NSNames }
      \cup { [type |-> "AAAA", name |-> <<"ns", 1>>, ip |-> DelegatedIP] }

Messages ==
    UNION { { [Authoritative |-> a, Answers |-> an, Authorities |-> au, Additionals |-> ad] :
                a \in BOOLEAN,
                an \in [1..t[1] -> AnswerRecs],
                au \in [1..t[2] -> AuthorityRecs],
                ad \in [1..t[3] -> AdditionalRecs] } :
            t \in { u \in (0..MaxRecs) \X (0..MaxRecs) \X (0..MaxRecs) :
                      u[1] + u[2] + u[3] <= MaxRecs } }

(* dnsmessage.Message{}: what queryDNS returns together with an error.     *)
NoMsg == [Authoritative |-> FALSE, Answers |-> <<>>, Authorities |-> <<>>, Additionals |-> <<>>]

(* Results of net.LookupHost: an error, or a list of addresses.            *)
HostResults ==
    { [err |-> TRUE, ips |-> <<>>], [err |-> FALSE, ips |-> <<>>] }
      \cup { [err |-> FALSE, ips |-> <<a>>] : a \in Addrs }
      \cup { [err |-> FALSE, ips |-> <<a, b>>] : a \in Addrs, b \in {DelegatedIP} }

(* No call of net.LookupHost made yet in this iteration (nil, nil).         *)
NoResult == [err |-> FALSE, ips |-> <<>>]

VARIABLES
    pc,            \* position of recursiveLookup / queryDNS
    serverName,    \* serverName
    serverIP,      \* serverIP
    triedServers,  \* triedServers, as the set of its keys
    res,           \* res of the current iteration
    err,           \* kind of the error queryDNS returned, "" for nil
    nextServers,   \* nextServers / servers of resolveNS
    nsIdx,         \* position of the range loop of resolveNS
    outcome,       \* which return statement ended the lookup
    reported,      \* the "-> Answer:" lines printed, in order
    openSockets,   \* number of open UDP connections
    nQueries,      \* calls of queryDNS so far (saturating)
    nFailed,       \* calls of queryDNS that returned an error (saturating)
    queried,       \* addresses queryDNS was called with
    lastLookup     \* ip, err of the net.LookupHost call of this resolveNS round

vars == <<pc, serverName, serverIP, triedServers, res, err, nextServers, nsIdx,
          outcome, reported, openSockets, nQueries, nFailed, queried, lastLookup>>

(* main: a root server drawn at random starts the lookup.                  *)
Init ==
    /\ pc = "loop"
    /\ serverName \in RootNames
    /\ serverIP = rootServers[serverName]
    /\ triedServers = {}
    /\ res = NoMsg
    /\ err = ""
    /\ nextServers = <<>>
    /\ nsIdx = 0
    /\ outcome = ""
    /\ reported = <<>>
    /\ openSockets = 0
    /\ nQueries = 0
    /\ nFailed = 0
    /\ queried = {}
    /\ lastLookup = NoResult

(* ----------------------------------------------------------------------- *)
(* Pure parts of the code                                                  *)
(* ----------------------------------------------------------------------- *)

(* Variant of ReportAnswers that prints the A records only.                *)
RECURSIVE ReportOnlyA(_)
ReportOnlyA(answers) ==
    IF answers = <<>> THEN <<>>
    ELSE IF Head(answers).type = "A" THEN <<Head(answers)>> \o ReportOnlyA(Tail(answers))
    ELSE ReportOnlyA(Tail(answers))

(* The loop over res.Answers of recursiveLookup: one line per A and per    *)
(* AAAA record, in section order; other types print nothing.               *)
RECURSIVE ReportAnswers(_)
ReportAnswers(answers) ==
    IF answers = <<>> THEN <<>>
    ELSE LET answer == Head(answers)
             rest == ReportAnswers(Tail(answers))
         IN  IF answer.type = "A" THEN <<answer>> \o rest
             ELSE IF answer.type = "AAAA" THEN <<answer>> \o rest
             ELSE rest

(* Variant of NSOf that lists a nameserver name once.                      *)
RECURSIVE NSOfOnce(_)
NSOfOnce(authorities) ==
    IF authorities = <<>> THEN <<>>
    ELSE LET ns == Head(authorities)
             rest == NSOfOnce(Tail(authorities))
         IN  IF ns.type = "NS" /\ \A k \in DOMAIN rest : rest[k] # ns.ns
             THEN <<ns.ns>> \o rest
             ELSE rest

(* getNextServers: the NS names of the authority section, appended in      *)
(* section order.                                                          *)
RECURSIVE NSOf(_)
NSOf(authorities) ==
    IF authorities = <<>> THEN <<>>
    ELSE LET ns == Head(authorities)
         IN  IF ns.type = "NS" THEN <<ns.ns>> \o NSOf(Tail(authorities))
             ELSE NSOf(Tail(authorities))

GetNextServers(msg) == NSOf(msg.Authorities)

(* resolvedIPs of getNextServers: name -> address of the A records of the  *)
(* additional section (a later record overwrites an earlier one).  The     *)
(* code only prints it.                                                    *)
ResolvedIPs(msg) ==
    LET ad == msg.Additionals
        names == { ad[k].name : k \in { j \in DOMAIN ad : ad[j].type = "A" } }
        last(n) == CHOOSE k \in DOMAIN ad :
                      /\ ad[k].type = "A" /\ ad[k].name = n
                      /\ \A j \in DOMAIN ad : (ad[j].type = "A" /\ ad[j].name = n) => j <= k
    IN  [n \in names |-> ad[last(n)].ip]

(* Variant of PickNewRootServer that does not look at the tried set.       *)
PickAnyRoot(tried) == { <<n, rootServers[n]>> : n \in RootNames }

(* Variant of PickNewRootServer with the test on the tried set inverted.   *)
PickTriedRoot(tried) ==
    LET again == { n \in RootNames : rootServers[n] \in tried }
    IN  IF again = {} THEN { <<NoName, NoIP>> }
        ELSE { <<n, rootServers[n]>> : n \in again }

(* pickNewRootServer: the pairs it can return.  Go ranges over a map in an *)
(* unspecified order, so any entry with an untried address can come first. *)
PickNewRootServer(tried) ==
    LET untried == { n \in RootNames : rootServers[n] \notin tried }
    IN  IF untried = {} THEN { <<NoName, NoIP>> }
        ELSE { <<n, rootServers[n]>> : n \in untried }

(* ----------------------------------------------------------------------- *)
(* queryDNS                                                                *)
(* ----------------------------------------------------------------------- *)

(* Variant of QueryFails without the deferred conn.Close().                *)
QueryFailsLeaks(kind, wasOpen) ==
    /\ pc' = "err"
    /\ err' = kind
    /\ res' = NoMsg
    /\ nFailed' = Inc(nFailed)
    /\ openSockets' = openSockets

(* A return of queryDNS with an error: dnsmessage.Message{} and err; the   *)
(* deferred conn.Close() runs if the dial had succeeded.                   *)
QueryFails(kind, wasOpen) ==
    /\ pc' = "err"
    /\ err' = kind
    /\ res' = NoMsg
    /\ nFailed' = Inc(nFailed)
    /\ openSockets' = IF wasOpen THEN openSockets - 1 ELSE openSockets

(* Variant of Dial that marks the server as tried only when the dial       *)
(* fails.                                                                  *)
DialMarksOnFailure ==
    /\ pc = "loop"
    /\ queried' = queried \cup {serverIP}
    /\ nQueries' = Inc(nQueries)
    /\ lastLookup' = NoResult
    /\ \/ /\ QueryFails("dial", FALSE)
          /\ triedServers' = triedServers \cup {serverIP}
       \/ /\ pc' = "write"
          /\ openSockets' = openSockets + 1
          /\ UNCHANGED <<err, res, nFailed, triedServers>>
    /\ UNCHANGED <<serverName, serverIP, nextServers, nsIdx, outcome, reported>>

(* Top of the loop: triedServers[serverIP] = true, then queryDNS is        *)
(* entered and dials.                                                      *)
Dial ==
    /\ pc = "loop"
    /\ triedServers' = triedServers \cup {serverIP}
    /\ queried' = queried \cup {serverIP}
    /\ nQueries' = Inc(nQueries)
    /\ lastLookup' = NoResult
    /\ \/ QueryFails("dial", FALSE)
       \/ /\ pc' = "write"
          /\ openSockets' = openSockets + 1
          /\ UNCHANGED <<err, res, nFailed>>
    /\ UNCHANGED <<serverName, serverIP, nextServers, nsIdx, outcome, reported>>

Write ==
    /\ pc = "write"
    /\ \/ QueryFails("write", TRUE)
       \/ /\ pc' = "read"
          /\ UNCHANGED <<err, res, nFailed, openSockets>>
    /\ UNCHANGED <<serverName, serverIP, triedServers, nextServers, nsIdx, outcome,
                   reported, nQueries, queried, lastLookup>>

Read ==
    /\ pc = "read"
    /\ \/ QueryFails("read", TRUE)
       \/ /\ pc' = "unpack"
          /\ UNCHANGED <<err, res, nFailed, openSockets>>
    /\ UNCHANGED <<serverName, serverIP, triedServers, nextServers, nsIdx, outcome,
                   reported, nQueries, queried, lastLookup>>

(* res.Unpack(response[:n]) and the return of queryDNS.                    *)
Unpack ==
    /\ pc = "unpack"
    /\ \/ QueryFails("unpack", TRUE)
       \/ /\ \E m \in Messages : res' = m
          /\ pc' = "ok"
          /\ openSockets' = openSockets - 1
          /\ UNCHANGED <<err, nFailed>>
    /\ UNCHANGED <<serverName, serverIP, triedServers, nextServers, nsIdx, outcome,
                   reported, nQueries, queried, lastLookup>>

(* ----------------------------------------------------------------------- *)
(* recursiveLookup after queryDNS has returned                             *)
(* ----------------------------------------------------------------------- *)

(* Variant of Fallback that queries a failed delegated server again.       *)
FallbackRetriesDelegated ==
    /\ pc = "err"
    /\ IF serverIP \notin RootIPs
       THEN /\ pc' = "loop"
            /\ UNCHANGED <<serverName, serverIP, outcome>>
       ELSE \E p \in PickNewRootServer(triedServers) :
               IF p[2] = NoIP
               THEN /\ pc' = "done"
                    /\ outcome' = "NoMoreRoots"
                    /\ UNCHANGED <<serverName, serverIP>>
               ELSE /\ pc' = "loop"
                    /\ serverName' = p[1]
                    /\ serverIP' = p[2]
                    /\ UNCHANGED outcome
    /\ err' = ""
    /\ UNCHANGED <<triedServers, res, nextServers, nsIdx, reported, openSockets,
                   nQueries, nFailed, queried, lastLookup>>

(* err != nil: another root server, or the end of the lookup.              *)
Fallback ==
    /\ pc = "err"
    /\ \E p \in PickNewRootServer(triedServers) :
          IF p[2] = NoIP
          THEN /\ pc' = "done"
               /\ outcome' = "NoMoreRoots"
               /\ UNCHANGED <<serverName, serverIP>>
          ELSE /\ pc' = "loop"
               /\ serverName' = p[1]
               /\ serverIP' = p[2]
               /\ UNCHANGED outcome
    /\ err' = ""
    /\ UNCHANGED <<triedServers, res, nextServers, nsIdx, reported, openSockets,
                   nQueries, nFailed, queried, lastLookup>>

(* Variant of Authoritative that returns only when the response names no   *)
(* nameserver, and follows the NS records otherwise.                       *)
AuthoritativeFollowsNS ==
    /\ pc = "ok"
    /\ res.Authoritative
    /\ reported' = ReportAnswers(res.Answers)
    /\ IF Len(GetNextServers(res)) = 0
       THEN /\ pc' = "done"
            /\ outcome' = "Authoritative"
            /\ res' = NoMsg
            /\ UNCHANGED <<nextServers, nsIdx>>
       ELSE /\ pc' = "resolve"
            /\ nextServers' = GetNextServers(res)
            /\ nsIdx' = 1
            /\ UNCHANGED <<res, outcome>>
    /\ UNCHANGED <<serverName, serverIP, triedServers, err, openSockets, nQueries,
                   nFailed, queried, lastLookup>>

(* res.Authoritative: print the A/AAAA answers and return.                 *)
Authoritative ==
    /\ pc = "ok"
    /\ res.Authoritative
    /\ reported' = ReportAnswers(res.Answers)
    /\ pc' = "done"
    /\ outcome' = "Authoritative"
    /\ res' = NoMsg
    /\ UNCHANGED <<serverName, serverIP, triedServers, err, nextServers, nsIdx,
                   openSockets, nQueries, nFailed, queried, lastLookup>>

(* Variant of Referral that treats an empty referral as a failed query.    *)
ReferralEmptyFallsBack ==
    /\ pc = "ok"
    /\ ~res.Authoritative
    /\ nextServers' = GetNextServers(res)
    /\ IF Len(nextServers') = 0
       THEN /\ pc' = "err"
            /\ res' = NoMsg
            /\ nsIdx' = 0
            /\ UNCHANGED outcome
       ELSE /\ pc' = "resolve"
            /\ nsIdx' = 1
            /\ UNCHANGED <<res, outcome>>
    /\ UNCHANGED <<serverName, serverIP, triedServers, err, reported, openSockets,
                   nQueries, nFailed, queried, lastLookup>>

(* Variant of Referral that prints the answers of a response that is not   *)
(* authoritative.                                                          *)
ReferralReportsAnswers ==
    /\ pc = "ok"
    /\ ~res.Authoritative
    /\ reported' = ReportAnswers(res.Answers)
    /\ nextServers' = GetNextServers(res)
    /\ IF Len(nextServers') = 0
       THEN /\ pc' = "done"
            /\ outcome' = "NoNameServers"
            /\ res' = NoMsg
            /\ nsIdx' = 0
       ELSE /\ pc' = "resolve"
            /\ nsIdx' = 1
            /\ UNCHANGED <<res, outcome>>
    /\ UNCHANGED <<serverName, serverIP, triedServers, err, openSockets,
                   nQueries, nFailed, queried, lastLookup>>

(* nextServers := getNextServers(res); return when it is empty, otherwise  *)
(* enter resolveNS.                                                        *)
Referral ==
    /\ pc = "ok"
    /\ ~res.Authoritative
    /\ nextServers' = GetNextServers(res)
    /\ IF Len(nextServers') = 0
       THEN /\ pc' = "done"
            /\ outcome' = "NoNameServers"
            /\ res' = NoMsg
            /\ nsIdx' = 0
       ELSE /\ pc' = "resolve"
            /\ nsIdx' = 1
            /\ UNCHANGED <<res, outcome>>
    /\ UNCHANGED <<serverName, serverIP, triedServers, err, reported, openSockets,
                   nQueries, nFailed, queried, lastLookup>>

(* Variant of LookupHost that falls back to a root server when no          *)
(* candidate resolves.                                                     *)
LookupHostFallsBack ==
    /\ pc = "resolve"
    /\ \E r \in HostResults :
        /\ lastLookup' = r
        /\ IF ~r.err /\ Len(r.ips) > 0
             THEN /\ serverName' = nextServers[nsIdx]
                  /\ serverIP' = r.ips[1]
                  /\ pc' = "loop"
                  /\ res' = NoMsg
                  /\ nextServers' = <<>>
                  /\ nsIdx' = 0
                  /\ UNCHANGED outcome
             ELSE IF nsIdx < Len(nextServers)
             THEN /\ nsIdx' = nsIdx + 1
                  /\ UNCHANGED <<pc, serverName, serverIP, res, nextServers, outcome>>
             ELSE /\ pc' = "err"
                  /\ res' = NoMsg
                  /\ UNCHANGED <<serverName, serverIP, nextServers, nsIdx, outcome>>
    /\ UNCHANGED <<triedServers, err, reported, openSockets, nQueries, nFailed, queried>>

(* Variant of LookupHost that pairs the candidate with the last address of *)
(* the list net.LookupHost returned.                                       *)
LookupHostTakesLast ==
    /\ pc = "resolve"
    /\ \E r \in HostResults :
        /\ lastLookup' = r
        /\ IF ~r.err /\ Len(r.ips) > 0
             THEN /\ serverName' = nextServers[nsIdx]
                  /\ serverIP' = r.ips[Len(r.ips)]
                  /\ pc' = "loop"
                  /\ res' = NoMsg
                  /\ nextServers' = <<>>
                  /\ nsIdx' = 0
                  /\ UNCHANGED outcome
             ELSE IF nsIdx < Len(nextServers)
             THEN /\ nsIdx' = nsIdx + 1
                  /\ UNCHANGED <<pc, serverName, serverIP, res, nextServers, outcome>>
             ELSE /\ serverName' = NoName
                  /\ serverIP' = NoIP
                  /\ pc' = "done"
                  /\ outcome' = "ResolveFailed"
                  /\ res' = NoMsg
                  /\ UNCHANGED <<nextServers, nsIdx>>
    /\ UNCHANGED <<triedServers, err, reported, openSockets, nQueries, nFailed, queried>>

(* Variant of LookupHost that passes over a candidate whose address is in  *)
(* the tried set.                                                          *)
LookupHostSkipsTried ==
    /\ pc = "resolve"
    /\ \E r \in HostResults :
        /\ lastLookup' = r
        /\ IF ~r.err /\ Len(r.ips) > 0 /\ r.ips[1] \notin triedServers
             THEN /\ serverName' = nextServers[nsIdx]
                  /\ serverIP' = r.ips[1]
                  /\ pc' = "loop"
                  /\ res' = NoMsg
                  /\ nextServers' = <<>>
                  /\ nsIdx' = 0
                  /\ UNCHANGED outcome
             ELSE IF nsIdx < Len(nextServers)
             THEN /\ nsIdx' = nsIdx + 1
                  /\ UNCHANGED <<pc, serverName, serverIP, res, nextServers, outcome>>
             ELSE /\ serverName' = NoName
                  /\ serverIP' = NoIP
                  /\ pc' = "done"
                  /\ outcome' = "ResolveFailed"
                  /\ res' = NoMsg
                  /\ UNCHANGED <<nextServers, nsIdx>>
    /\ UNCHANGED <<triedServers, err, reported, openSockets, nQueries, nFailed, queried>>

(* One round of the loop of resolveNS: net.LookupHost on servers[nsIdx].   *)
(* A usable result returns (ns, ip[0]) and the driver loops; after the     *)
(* last candidate resolveNS returns ("", "") and the driver returns.       *)
LookupHost ==
    /\ pc = "resolve"
    /\ \E r \in HostResults :
        /\ lastLookup' = r
        /\ IF ~r.err /\ Len(r.ips) > 0
             THEN /\ serverName' = nextServers[nsIdx]
                  /\ serverIP' = r.ips[1]
                  /\ pc' = "loop"
                  /\ res' = NoMsg
                  /\ nextServers' = <<>>
                  /\ nsIdx' = 0
                  /\ UNCHANGED outcome
             ELSE IF nsIdx < Len(nextServers)
             THEN /\ nsIdx' = nsIdx + 1
                  /\ UNCHANGED <<pc, serverName, serverIP, res, nextServers, outcome>>
             ELSE /\ serverName' = NoName
                  /\ serverIP' = NoIP
                  /\ pc' = "done"
                  /\ outcome' = "ResolveFailed"
                  /\ res' = NoMsg
                  /\ UNCHANGED <<nextServers, nsIdx>>
    /\ UNCHANGED <<triedServers, err, reported, openSockets, nQueries, nFailed, queried>>

Next ==
    \/ Dial
    \/ Write
    \/ Read
    \/ Unpack
    \/ Fallback
    \/ Authoritative
    \/ Referral
    \/ LookupHost

Spec == Init /\ [][Next]_vars

(* The lookup runs on one goroutine that is never suspended for good: a    *)
(* step that can be taken is taken (every network call has a deadline).    *)
FairSpec == Spec /\ WF_vars(Next)

TypeOK ==
    /\ pc \in {"loop", "write", "read", "unpack", "err", "ok", "resolve", "done"}
    /\ serverIP \in Addrs \cup {NoIP}
    /\ triedServers \subseteq Addrs
    /\ res \in Messages
    /\ err \in {"", "dial", "write", "read", "unpack"}
    /\ outcome \in {"", "Authoritative", "NoMoreRoots", "NoNameServers", "ResolveFailed"}
    /\ openSockets \in 0..1
    /\ nQueries \in 0..MaxCount
    /\ nFailed \in 0..MaxCount
    /\ lastLookup \in HostResults

(* ----------------------------------------------------------------------- *)
(* Terminal states                                                         *)
(* ----------------------------------------------------------------------- *)
IsAuthoritative == pc = "done" /\ outcome = "Authoritative"
IsExhausted == pc = "done" /\ outcome \in {"NoMoreRoots", "NoNameServers", "ResolveFailed"}

(* C1: every lookup reaches a terminal state (Authoritative or Exhausted): *)
(* it does not follow referrals forever.                                   *)
C1_Terminates == <>(IsAuthoritative \/ IsExhausted)

(* C2: a successful query whose response is authoritative ends the lookup  *)
(* in Authoritative at the next step, whatever its authority and           *)
(* additional sections hold, and no query follows.                         *)
C2_AuthoritativeStop ==
    [][ /\ (pc = "ok" /\ res.Authoritative) =>
              (pc' = "done" /\ outcome' = "Authoritative" /\ nQueries' = nQueries)
        /\ IsAuthoritative => (pc' = "done" /\ nQueries' = nQueries /\ queried' = queried)
      ]_vars

C2_Witness ==
    /\ pc = "ok"
    /\ res.Authoritative
    /\ \E k \in DOMAIN res.Authorities : res.Authorities[k].type = "NS"
    /\ res.Additionals # <<>>

(* C3: when every query of the lookup has failed, the queried addresses    *)
(* are pairwise distinct and at most NumRoots many, and the lookup ends    *)
(* with "No more root servers" after exactly NumRoots attempts, one per    *)
(* root address.                                                           *)
C3_FallbackExhaustion ==
    (nFailed = nQueries) =>
        /\ nQueries <= NumRoots
        /\ Cardinality(queried) = nQueries
        /\ pc = "done" =>
              /\ outcome = "NoMoreRoots"
              /\ nQueries = Cardinality(DOMAIN rootServers)
              /\ queried = RootIPs

C3_Witness ==
    /\ pc = "done"
    /\ outcome = "NoMoreRoots"
    /\ nFailed = nQueries
    /\ nQueries = NumRoots

(* Glue of a candidate nameserver in the response under processing.        *)
HasGlue(n) == n \in DOMAIN ResolvedIPs(res)

(* C4: in resolveNS on a referral with a glued and an unglued candidate,   *)
(* the step taken selects a glued candidate with its glue address (no      *)
(* failing or differing host lookup comes first).                          *)
C4_GluePreferred ==
    [][ ( /\ pc = "resolve"
          /\ \E k \in DOMAIN nextServers : HasGlue(nextServers[k])
          /\ \E k \in DOMAIN nextServers : ~HasGlue(nextServers[k]) )
        => ( /\ pc' = "loop"
             /\ HasGlue(serverName')
             /\ serverIP' = ResolvedIPs(res)[serverName'] )
      ]_vars

(* C5: after a root server's referral that names one nameserver with glue  *)
(* address X, the next query goes to X and resolveNS makes no host lookup  *)
(* whose result decides otherwise.                                         *)
C5_GlueIsNextTarget ==
    [][ ( /\ pc = "resolve"
          /\ serverIP \in RootIPs
          /\ Len(nextServers) = 1
          /\ HasGlue(nextServers[1]) )
        => ( /\ pc' = "loop"
             /\ serverName' = nextServers[1]
             /\ serverIP' = ResolvedIPs(res)[nextServers[1]] )
      ]_vars

(* C6: after a failed query, of any kind and at any depth, the step taken  *)
(* either picks an entry of the root table whose address is not in the     *)
(* tried set (so never the server that just failed) or, exactly when no    *)
(* root address is untried, ends the lookup as exhausted.                  *)
C6_RootFallback ==
    [][ pc = "err" =>
          IF RootIPs \subseteq triedServers
          THEN pc' = "done" /\ outcome' = "NoMoreRoots" /\ nQueries' = nQueries
          ELSE /\ pc' = "loop"
               /\ serverName' \in DOMAIN rootServers
               /\ serverIP' = rootServers[serverName']
               /\ serverIP' \notin triedServers
               /\ serverIP' # serverIP
               /\ triedServers' = triedServers
      ]_vars

(* The delegated server was queried second and failed, and the fallback    *)
(* chose an untried root (a lookup starts at a root, and a failure of the  *)
(* first query would have been followed by a root).                        *)
C6_Witness ==
    /\ pc = "loop"
    /\ nQueries = 2
    /\ nFailed = 1
    /\ DelegatedIP \in triedServers
    /\ serverIP \in RootIPs \ triedServers

(* C7 as claimed: the tried set changes only when a query fails, and the   *)
(* server of a query that succeeded is not in it.                          *)
C7_TriedOnlyFailed ==
    [][ /\ (triedServers' # triedServers) => (pc' = "err" \/ pc = "err")
        /\ (pc' = "ok") => (serverIP' \notin triedServers')
      ]_vars

(* C7 amended: the tried set holds exactly the addresses queried so far,   *)
(* failed or not; the server of a query that succeeded is in it and is not *)
(* offered by the fallback.                                                *)
C7_TriedIsQueried ==
    /\ triedServers = queried
    /\ pc \in {"write", "read", "unpack", "ok", "err", "resolve"} => serverIP \in triedServers
    /\ pc = "ok" => \A p \in PickNewRootServer(triedServers) : p[2] # serverIP

C7_Witness ==
    /\ pc = "ok"
    /\ nFailed = 0
    /\ serverIP \in RootIPs
    /\ serverIP \in triedServers

NoNSRecord(msg) == \A k \in DOMAIN msg.Authorities : msg.Authorities[k].type # "NS"

(* C8: a non-authoritative response without an NS record in its authority  *)
(* section ends the lookup at once: no fallback, no host lookup, no query. *)
C8_EmptyReferral ==
    [][ /\ (pc = "ok" /\ ~res.Authoritative /\ NoNSRecord(res)) =>
              /\ pc' = "done"
              /\ outcome' = "NoNameServers"
              /\ nQueries' = nQueries
              /\ serverIP' = serverIP
        /\ (pc = "done" /\ outcome = "NoNameServers") => (pc' = "done" /\ nQueries' = nQueries)
      ]_vars

C8_Witness ==
    /\ pc = "done"
    /\ outcome = "NoNameServers"
    /\ ~(RootIPs \subseteq triedServers)

(* C9: in resolveNS a step either selects the current candidate, moves to  *)
(* the next one, or - only at the last candidate - ends the lookup with    *)
(* "Failed to resolve"; it never falls back to a root server or queries.   *)
C9_ResolveFailure ==
    [][ /\ pc = "resolve" =>
              \/ pc' = "loop" /\ serverName' = nextServers[nsIdx] /\ serverIP' # NoIP
              \/ pc' = "resolve" /\ nsIdx < Len(nextServers) /\ nsIdx' = nsIdx + 1
              \/ /\ nsIdx = Len(nextServers)
                 /\ pc' = "done"
                 /\ outcome' = "ResolveFailed"
                 /\ nQueries' = nQueries
                 /\ triedServers' = triedServers
        /\ (pc = "done" /\ outcome = "ResolveFailed") => (pc' = "done" /\ nQueries' = nQueries)
      ]_vars

C9_Witness ==
    /\ pc = "done"
    /\ outcome = "ResolveFailed"
    /\ Len(nextServers) >= 2
    /\ nsIdx = Len(nextServers)
    /\ ~(RootIPs \subseteq triedServers)

IsAddressRecord(r) == r.type \in {"A", "AAAA"}

(* C10: the answers reported on reaching Authoritative are the A and AAAA  *)
(* records of the answer section, each once and in section order; nothing  *)
(* is reported otherwise.                                                  *)
C10_AuthoritativeAnswers ==
    [][ /\ (pc = "ok" /\ res.Authoritative) =>
              /\ pc' = "done" /\ outcome' = "Authoritative"
              /\ reported' = SelectSeq(res.Answers, IsAddressRecord)
        /\ ~(pc = "ok" /\ res.Authoritative) => reported' = reported
      ]_vars

C10_Witness ==
    /\ IsAuthoritative
    /\ Len(reported) = 2
    /\ reported[1].type = "AAAA"
    /\ reported[2].type = "A"

C10_WitnessNoAddress ==
    /\ pc = "ok"
    /\ res.Authoritative
    /\ Len(res.Answers) = 1
    /\ res.Answers[1].type = "CNAME"

(* C11: at most one UDP socket is open at any time, one is open exactly    *)
(* while queryDNS is between its dial and its return, and none is open     *)
(* when the driver picks the next target or when the lookup has ended,     *)
(* whichever way the query returned.                                       *)
C11_SingleSocket ==
    /\ openSockets \in {0, 1}
    /\ pc \in {"write", "read", "unpack"} => openSockets = 1
    /\ pc \in {"loop", "err", "ok", "resolve", "done"} => openSockets = 0

C11_Witness ==
    /\ pc = "err"
    /\ err = "unpack"
    /\ nQueries >= 2
    /\ openSockets = 0

(* What pickNewRootServer may return for a tried set: an entry of the root *)
(* table whose address is untried, or the empty pair; the empty pair       *)
(* exactly when every root address is tried.                               *)
PickAllowed(tried, p) ==
    \/ /\ p[1] \in DOMAIN rootServers
       /\ p[2] = rootServers[p[1]]
       /\ p[2] \notin tried
       /\ ~(RootIPs \subseteq tried)
    \/ /\ p = <<NoName, NoIP>>
       /\ RootIPs \subseteq tried

(* C12: for every tried set pickNewRootServer returns something, and only  *)
(* what PickAllowed admits; where the driver calls it, the pair it gets is *)
(* the new target (or the lookup ends on the empty pair) and the tried set *)
(* is left as it was.                                                      *)
C12_PickNewRootServer ==
    [][ pc = "err" =>
          /\ \A tried \in SUBSET Addrs :
                /\ PickNewRootServer(tried) # {}
                /\ \A p \in PickNewRootServer(tried) : PickAllowed(tried, p)
          /\ triedServers' = triedServers
          /\ IF pc' = "done"
             THEN PickAllowed(triedServers, <<NoName, NoIP>>)
             ELSE PickAllowed(triedServers, <<serverName', serverIP'>>)
      ]_vars

(* One root address is still untried, next to a tried delegated address.   *)
C12_Witness ==
    /\ pc = "err"
    /\ DelegatedIP \in triedServers
    /\ Cardinality(RootIPs \ triedServers) = 1

(* A result of net.LookupHost that resolveNS accepts.                      *)
Usable(r) == r.err = FALSE /\ r.ips # <<>>

(* C13: resolveNS starts at the first candidate; each round looks up the   *)
(* candidate at its position, every earlier one having failed.  A usable   *)
(* result ends resolveNS with that candidate and the head of the returned  *)
(* list (no later candidate is looked up); an unusable one moves to the    *)
(* next candidate, and only after the last candidate is the result empty.  *)
C13_ResolveOrder ==
    [][ /\ (pc = "ok" /\ pc' = "resolve") => nsIdx' = 1
        /\ pc = "resolve" =>
              /\ nsIdx \in 1..Len(nextServers)
              /\ IF Usable(lastLookup')
                 THEN /\ pc' = "loop"
                      /\ serverName' = nextServers[nsIdx]
                      /\ serverIP' = Head(lastLookup'.ips)
                 ELSE IF nsIdx # Len(nextServers)
                 THEN /\ pc' = "resolve"
                      /\ nsIdx' = nsIdx + 1
                      /\ nextServers' = nextServers
                 ELSE /\ pc' = "done"
                      /\ serverName' = NoName
                      /\ serverIP' = NoIP
              /\ (serverIP' = NoIP) => (~Usable(lastLookup') /\ nsIdx = Len(nextServers))
      ]_vars

(* The second candidate was chosen, with the first of two addresses.       *)
C13_Witness ==
    /\ pc = "loop"
    /\ serverName = <<"ns", 2>>
    /\ Len(lastLookup.ips) = 2
    /\ lastLookup.ips[1] # lastLookup.ips[2]
    /\ serverIP = lastLookup.ips[1]

IsNSRecord(r) == r.type = "NS"

(* The names of the NS records of a section, in section order.             *)
NSNamesInOrder(section) ==
    LET sel == SelectSeq(section, IsNSRecord)
    IN  [k \in 1..Len(sel) |-> sel[k].ns]

(* C14: for the response under processing, getNextServers yields the names *)
(* of exactly the NS records of the authority section, in order and with   *)
(* duplicates; the list is empty exactly when there is no NS record, and   *)
(* the additional section has no influence.  The driver's nextServers is   *)
(* that list.                                                              *)
C14_ReferralExtraction ==
    /\ pc = "ok" =>
          /\ GetNextServers(res) = NSNamesInOrder(res.Authorities)
          /\ (GetNextServers(res) = <<>>) <=> NoNSRecord(res)
          /\ GetNextServers([res EXCEPT !.Additionals = <<>>]) = GetNextServers(res)
    /\ pc = "resolve" =>
          /\ nextServers = NSNamesInOrder(res.Authorities)
          /\ nextServers # <<>>
    /\ (pc = "done" /\ outcome = "NoNameServers") => nextServers = <<>>

(* Two NS records with the same name around a record of another type.      *)
C14_Witness ==
    /\ pc = "resolve"
    /\ Len(res.Authorities) = 3
    /\ Len(nextServers) = 2
    /\ nextServers[1] = nextServers[2]

(* C15: no more than len(rootServers) queries of a lookup fail, however    *)
(* many succeed in between: the failures never outnumber the root          *)
(* addresses tried so far, and a failure is followed by the end of the     *)
(* lookup or by a root address that was untried.                           *)
C15_FailureBound ==
    /\ nFailed <= Cardinality(DOMAIN rootServers)
    /\ nFailed <= Cardinality(triedServers \cap RootIPs)
    /\ (pc = "loop" /\ nFailed > 0 /\ serverIP \in RootIPs \ triedServers) =>
          nFailed < Cardinality(DOMAIN rootServers)

(* All NumRoots failures happened, with successful queries in between.     *)
C15_Witness ==
    /\ pc = "done"
    /\ nFailed = NumRoots
    /\ nQueries > nFailed
    /\ DelegatedIP \in queried

(* C16: the server a root fallback chooses was not the target of any       *)
(* earlier query of the lookup, failed or succeeded; in particular not the *)
(* root whose referral led to the server that failed.                      *)
C16_FallbackFresh ==
    [][ (pc = "err" /\ pc' = "loop") =>
          /\ serverIP' \in RootIPs
          /\ serverIP' \notin queried
          /\ queried' = queried
      ]_vars

(* A root answered with a referral, the delegated server failed, and the   *)
(* fallback stands at another root: two queries, the second one failed.    *)
C16_Witness ==
    /\ pc = "loop"
    /\ nQueries = 2
    /\ nFailed = 1
    /\ Cardinality(queried \cap RootIPs) = 1
    /\ DelegatedIP \in queried
    /\ serverIP \in RootIPs
    /\ serverIP \notin queried

(* C17: the address resolved for a referral becomes the target and is      *)
(* queried next whether or not it is in the tried set; the tried set is    *)
(* neither read nor changed on the way.                                    *)
C17_ReferralNotFiltered ==
    [][ /\ (pc = "resolve" /\ Usable(lastLookup')) =>
              /\ pc' = "loop"
              /\ serverIP' = Head(lastLookup'.ips)
              /\ triedServers' = triedServers
        /\ pc = "loop" =>
              /\ pc' \in {"write", "err"}
              /\ serverIP' = serverIP
              /\ queried' = queried \cup {serverIP}
              /\ nQueries' = Inc(nQueries)
      ]_vars

(* More queries than distinct addresses: one address is being queried for  *)
(* the second time, after a query of the lookup has failed.                *)
C17_Witness ==
    /\ pc = "write"
    /\ nQueries < MaxCount
    /\ nQueries > Cardinality(queried)
    /\ nFailed >= 1

(* C18: an address is reported only by a lookup that ended on an           *)
(* authoritative response; a response that is not authoritative reports    *)
(* nothing, whatever its answer section holds, and is handled as a         *)
(* referral: followed when it has an NS record, the end of the lookup      *)
(* otherwise.                                                              *)
C18_AnswersOnlyAuthoritative ==
    [][ /\ (reported' # <<>>) => (pc' = "done" /\ outcome' = "Authoritative")
        /\ (reported' # reported) => (pc = "ok" /\ res.Authoritative)
        /\ (pc = "ok" /\ ~res.Authoritative) =>
              /\ reported' = <<>>
              /\ IF NoNSRecord(res)
                 THEN pc' = "done" /\ outcome' = "NoNameServers"
                 ELSE pc' = "resolve" /\ res' = res
      ]_vars

(* A referral that carries an A answer is being followed; nothing printed. *)
C18_Witness ==
    /\ pc = "resolve"
    /\ ~res.Authoritative
    /\ \E k \in DOMAIN res.Answers : res.Answers[k].type = "A"
    /\ reported = <<>>

====
